---- MODULE Spec2Model ----
(***************************************************************************)
(* GTFS stop lookup and route extraction (gec2025.c).                      *)
(*                                                                         *)
(* main resolves two user queries to stops (find_stop_in_csv), then        *)
(* generate_map_html asks get_intermediate_stops for the stops of a trip   *)
(* between them, falls back to a direct connection when none is returned,  *)
(* computes the map centre, writes the polyline and the markers, and       *)
(* frees the stop buffers; main then frees its own two stops.              *)
(*                                                                         *)
(* C strings are sequences of one-character strings; a CSV data row is a   *)
(* record of its fields (header parsing and file discovery are outside     *)
(* the model: the columns are the ones the header names).                  *)
(***************************************************************************)
EXTENDS Integers, Sequences, FiniteSets, TLC

VARIABLES
    stops,               \* data rows of stops.csv, in file order
    stop_times,          \* data rows of stop_times.csv, in file order
    origin_input,        \* main: first line typed by the user
    final_input,         \* main: second line typed by the user
    pc,                  \* position in main / generate_map_html
    origin_stop,         \* main: Stop origin_stop
    final_stop,          \* main: Stop final_stop
    gis,                 \* locals of the last get_intermediate_stops call
    intermediate_stops,  \* generate_map_html: used prefix of the Stop array
    stops_count,         \* generate_map_html: int stops_count
    center,              \* generate_map_html: center_lat, center_lon
    latlngs,             \* written polyline points
    markers,             \* written markers
    nalloc,              \* number of stop_id/stop_name buffers malloc'ed
    nfree                \* per buffer: how many times free() was called

vars == <<stops, stop_times, origin_input, final_input, pc, origin_stop,
          final_stop, gis, intermediate_stops, stops_count, center, latlngs,
          markers, nalloc, nfree>>

(***************************************************************************)
(* Bounds of the model and constants of the program.                       *)
(***************************************************************************)
MaxRows == 4        \* rows of a generated stop_times table
MaxStopRows == 3    \* rows of a generated stops table
MaxFieldRows == 3   \* rows of a trip whose stop_sequence fields may be bad

MAX_STOPS == 100    \* generate_map_html passes max_stops = 100
LOWER_BUF == 512    \* char qlower[512], char nameLower[512]

NULL == <<"NULL">>  \* the null pointer where a char* is expected

NoField == <<"NOFIELD">>  \* a column the row's line has no field for

Min(a, b) == IF a < b THEN a ELSE b

(***************************************************************************)
(* libc helpers, computed as libc computes them.                           *)
(***************************************************************************)
Digits == <<"0", "1", "2", "3", "4", "5", "6", "7", "8", "9">>

IsDigit(c) == \E d \in 1..10 : Digits[d] = c

DigitVal(c) == (CHOOSE d \in 1..10 : Digits[d] = c) - 1

\* tolower() on the letters the model's strings use
tolower(c) ==
    CASE c = "A" -> "a"
      [] c = "B" -> "b"
      [] c = "S" -> "s"
      [] c = "X" -> "x"
      [] OTHER -> c

RECURSIVE ParseDigits(_, _, _)
ParseDigits(s, i, acc) ==
    IF i > Len(s) \/ ~IsDigit(s[i]) THEN acc
    ELSE ParseDigits(s, i + 1, acc * 10 + DigitVal(s[i]))

\* atoi(): the value of the leading decimal digits, 0 when there are none
atoi(s) == ParseDigits(s, 1, 0)

\* atof() on a coordinate written in whole degrees
atof(s) == ParseDigits(s, 1, 0)

\* strstr(hay, needle) != NULL
strstr(hay, needle) ==
    \E i \in 0..(Len(hay) - Len(needle)) :
        SubSeq(hay, i + 1, i + Len(needle)) = needle

str_to_lower_copy(src, destSize) ==
    [i \in 1..Min(Len(src), destSize - 1) |-> tolower(src[i])]

(***************************************************************************)
(* find_stop_in_csv                                                        *)
(***************************************************************************)
NoStop == [stop_id |-> NULL, stop_name |-> NULL, stop_lat |-> 0, stop_lon |-> 0,
           id_buf |-> 0, name_buf |-> 0]

\* strcmp(fields[idx_id], query) == 0
IdMatches(fields, query) == fields.stop_id = query

NameMatchesRaw(fields, query) == strstr(fields.stop_name, query)

\* strstr(nameLower, qlower) != NULL
NameMatches(fields, query) ==
    strstr(str_to_lower_copy(fields.stop_name, LOWER_BUF),
           str_to_lower_copy(query, LOWER_BUF))

\* the out_stop written for a matching row; two buffers are malloc'ed
FillStop(fields, na) ==
    [stop_id |-> fields.stop_id, stop_name |-> fields.stop_name,
     stop_lat |-> atof(fields.stop_lat), stop_lon |-> atof(fields.stop_lon),
     id_buf |-> na + 1, name_buf |-> na + 2]

\* one data row of the while loop: id test, then name test
RowMatches(rows, i, query) ==
    IdMatches(rows[i], query) \/ NameMatches(rows[i], query)

RECURSIVE FindFrom(_, _, _, _)
FindFrom(rows, i, query, na) ==
    IF i > Len(rows) THEN [found |-> 0, stop |-> NoStop, nalloc |-> na]
    ELSE IF RowMatches(rows, i, query)
         THEN [found |-> 1, stop |-> FillStop(rows[i], na), nalloc |-> na + 2]
         ELSE FindFrom(rows, i + 1, query, na)

find_stop_in_csv(rows, query, na) == FindFrom(rows, 1, query, na)

(***************************************************************************)
(* get_intermediate_stops                                                  *)
(***************************************************************************)
HasStop(seq, id) == \E i \in 1..Len(seq) : seq[i].stop_id = id

HasEither(seq, origin_id, final_id) ==
    HasStop(seq, origin_id) \/ HasStop(seq, final_id)

\* has_origin && has_final over stop_sequence[0 .. seq_count-1]
HasBoth(seq, origin_id, final_id) ==
    HasStop(seq, origin_id) /\ HasStop(seq, final_id)

SetTripIdOnly(st, fields) == [st EXCEPT !.trip_id = fields.trip_id]

\* "Reset for new trip": strcpy(trip_id, ...); seq_count = 0
ResetForNewTrip(st, fields) ==
    [st EXCEPT !.trip_id = fields.trip_id, !.stop_sequence = <<>>]

\* the int left in stop_sequence[seq_count].stop_sequence: atoi of the field,
\* or, when the line has no such field (seq_idx >= fc), what malloc returned
SequenceOf(st, fields) ==
    IF fields.stop_sequence = NoField THEN st.uninit ELSE atoi(fields.stop_sequence)

\* "Add this stop to the sequence"
AddStop(st, fields, max_stops) ==
    IF Len(st.stop_sequence) < max_stops
    THEN [st EXCEPT !.stop_sequence =
              Append(@, [stop_id |-> fields.stop_id,
                         stop_sequence |-> SequenceOf(st, fields)])]
    ELSE st

\* the while (fgets(...)) loop over the data rows
RECURSIVE ReadRows(_, _, _, _, _, _)
ReadRows(rows, i, st, origin_id, final_id, max_stops) ==
    IF i > Len(rows) THEN st
    ELSE IF rows[i].trip_id # st.trip_id
         THEN IF /\ Len(st.stop_sequence) > 0
                 /\ HasBoth(st.stop_sequence, origin_id, final_id)
              THEN [st EXCEPT !.found_trip = 1]
              ELSE ReadRows(rows, i + 1,
                            AddStop(ResetForNewTrip(st, rows[i]), rows[i], max_stops),
                            origin_id, final_id, max_stops)
         ELSE ReadRows(rows, i + 1, AddStop(st, rows[i], max_stops),
                       origin_id, final_id, max_stops)

Swap(a, j) == [a EXCEPT ![j] = a[j + 1], ![j + 1] = a[j]]

RECURSIVE BubbleInnerSwapEqual(_, _, _)
BubbleInnerSwapEqual(a, j, limit) ==
    IF j >= limit THEN a
    ELSE BubbleInnerSwapEqual(IF a[j + 1].stop_sequence >= a[j + 2].stop_sequence
                              THEN Swap(a, j + 1) ELSE a,
                              j + 1, limit)

\* inner loop of the sort, j = 0 .. limit-1 (a is 1-based: a[j+1] is C's [j])
RECURSIVE BubbleInner(_, _, _)
BubbleInner(a, j, limit) ==
    IF j >= limit THEN a
    ELSE BubbleInner(IF a[j + 1].stop_sequence > a[j + 2].stop_sequence
                     THEN Swap(a, j + 1) ELSE a,
                     j + 1, limit)

RECURSIVE BubbleOuter(_, _)
BubbleOuter(a, i) ==
    IF i >= Len(a) - 1 THEN a
    ELSE BubbleOuter(BubbleInner(a, 0, Len(a) - i - 1), i + 1)

\* "Sort by stop sequence"
SortBySequence(a) == BubbleOuter(a, 0)

RECURSIVE RangeScanEitherOrder(_, _, _, _, _)
RangeScanEitherOrder(seq, i, r, origin_id, final_id) ==
    IF i >= Len(seq) THEN
        IF r.start_idx > r.end_idx /\ r.end_idx >= 0
        THEN [start_idx |-> r.end_idx, end_idx |-> r.start_idx] ELSE r
    ELSE RangeScanEitherOrder(seq, i + 1,
            [start_idx |-> IF seq[i + 1].stop_id = origin_id /\ r.start_idx < 0
                           THEN i ELSE r.start_idx,
             end_idx |-> IF seq[i + 1].stop_id = final_id /\ r.end_idx < 0
                         THEN i ELSE r.end_idx],
            origin_id, final_id)

\* "Find the range from origin to final": indices are C's, -1 for none
RECURSIVE RangeScan(_, _, _, _, _)
RangeScan(seq, i, r, origin_id, final_id) ==
    IF i >= Len(seq) THEN r
    ELSE LET s == IF seq[i + 1].stop_id = origin_id THEN i ELSE r.start_idx
         IN  IF seq[i + 1].stop_id = final_id
             THEN [start_idx |-> s, end_idx |-> i]
             ELSE RangeScan(seq, i + 1, [start_idx |-> s, end_idx |-> r.end_idx],
                            origin_id, final_id)

\* "Get stop details for all stops in the range"
RECURSIVE FetchRange(_, _, _, _, _, _, _)
FetchRange(seq, i, end_idx, rows, arr, na, max_stops) ==
    IF ~(i <= end_idx /\ Len(arr) < max_stops) THEN [arr |-> arr, nalloc |-> na]
    ELSE LET f == find_stop_in_csv(rows, seq[i + 1].stop_id, na)
         IN  IF f.found = 1
             THEN FetchRange(seq, i + 1, end_idx, rows, Append(arr, f.stop),
                             f.nalloc, max_stops)
             ELSE FetchRange(seq, i + 1, end_idx, rows, arr, na, max_stops)

\* read_sequence is stop_sequence[] as the read loop left it, before the sort
NoCall == [found_trip |-> 0, trip_id |-> <<>>, stop_sequence |-> <<>>,
           read_sequence |-> <<>>,
           start_idx |-> -1, end_idx |-> -1, stops_array |-> <<>>,
           stops_count |-> 0, nalloc |-> 0]

\* uninit is the content of the malloc'ed, never initialised StopTime array
get_intermediate_stops(st_rows, rows, origin_id, final_id, max_stops, na, uninit) ==
    LET st == ReadRows(st_rows, 1,
                       [trip_id |-> <<>>, stop_sequence |-> <<>>, found_trip |-> 0,
                        uninit |-> uninit],
                       origin_id, final_id, max_stops)
    IN  IF st.found_trip = 1 /\ Len(st.stop_sequence) > 0
        THEN LET sorted == SortBySequence(st.stop_sequence)
                 r == RangeScan(sorted, 0, [start_idx |-> -1, end_idx |-> -1],
                                origin_id, final_id)
                 got == IF r.start_idx >= 0 /\ r.end_idx >= r.start_idx
                        THEN FetchRange(sorted, r.start_idx, r.end_idx, rows,
                                        <<>>, na, max_stops)
                        ELSE [arr |-> <<>>, nalloc |-> na]
             IN  [found_trip |-> 1, trip_id |-> st.trip_id,
                  stop_sequence |-> sorted, read_sequence |-> st.stop_sequence,
                  start_idx |-> r.start_idx, end_idx |-> r.end_idx,
                  stops_array |-> got.arr, stops_count |-> Len(got.arr),
                  nalloc |-> got.nalloc]
        ELSE [found_trip |-> st.found_trip, trip_id |-> st.trip_id,
              stop_sequence |-> st.stop_sequence,
              read_sequence |-> st.stop_sequence,
              start_idx |-> -1, end_idx |-> -1,
              stops_array |-> <<>>, stops_count |-> 0, nalloc |-> na]

(***************************************************************************)
(* generate_map_html                                                       *)
(***************************************************************************)
DirectConnectionSwapped(o, f) == <<f, o>>

\* "If we couldn't find intermediate stops, use just origin and final"
DirectConnection(o, f) == <<o, f>>

RECURSIVE SumLat(_, _, _)
SumLat(arr, i, n) == IF i >= n THEN 0 ELSE arr[i + 1].stop_lat + SumLat(arr, i + 1, n)

RECURSIVE SumLon(_, _, _)
SumLon(arr, i, n) == IF i >= n THEN 0 ELSE arr[i + 1].stop_lon + SumLon(arr, i + 1, n)

\* the quotient a / n of two doubles, kept exact as the fraction <<a, n>>
Quot(a, n) == <<a, n>>

CenterOfEnds(arr, n) ==
    [lat |-> Quot(arr[1].stop_lat + arr[n].stop_lat, 2),
     lon |-> Quot(arr[1].stop_lon + arr[n].stop_lon, 2)]

\* "Calculate center point"
CenterOf(arr, n) ==
    [lat |-> Quot(SumLat(arr, 0, n), n), lon |-> Quot(SumLon(arr, 0, n), n)]

MarkerColorNoFinal(i, n) ==
    IF i = 0 THEN "green" ELSE IF i = n THEN "red" ELSE "blue"

\* marker_color of the stop at C index i of n
MarkerColor(i, n) ==
    IF i = 0 THEN "green" ELSE IF i = n - 1 THEN "red" ELSE "blue"

\* the popup's heading for the stop at C index i of n
PopupLabel(i, n) ==
    IF i = 0 THEN "Origin" ELSE IF i = n - 1 THEN "Final" ELSE "Stop"

Unknown == <<"U", "n", "k", "n", "o", "w", "n">>

MarkerAt(arr, i, n) ==
    [label |-> PopupLabel(i, n), color |-> MarkerColor(i, n),
     name |-> IF arr[i + 1].stop_name = NULL THEN Unknown ELSE arr[i + 1].stop_name,
     id |-> IF arr[i + 1].stop_id = NULL THEN <<>> ELSE arr[i + 1].stop_id,
     lat |-> arr[i + 1].stop_lat, lon |-> arr[i + 1].stop_lon]

\* if (p) free(p)
Free(nf, p) == IF p = 0 THEN nf ELSE [nf EXCEPT ![p] = @ + 1]

\* free the stop_id and stop_name of one Stop
FreeStop(nf, s) == Free(Free(nf, s.id_buf), s.name_buf)

RECURSIVE FreeStops(_, _, _, _)
FreeStops(nf, arr, i, n) ==
    IF i >= n THEN nf ELSE FreeStops(FreeStop(nf, arr[i + 1]), arr, i + 1, n)

\* the free-counters after na buffers have been allocated
Grow(nf, na) == [b \in 1..na |-> IF b <= Len(nf) THEN nf[b] ELSE 0]

(***************************************************************************)
(* The datasets and queries the program is run on.                         *)
(***************************************************************************)
TripIds == {<<"T", "1">>, <<"T", "2">>}

StopsRow(id, name, lat, lon) ==
    [stop_id |-> id, stop_name |-> name, stop_lat |-> lat, stop_lon |-> lon]

TimesRow(trip, id, sq) == [trip_id |-> trip, stop_id |-> id, stop_sequence |-> sq]

\* a stops table whose names contain no stop id
RouteStops ==
    << StopsRow(<<"1">>, <<"A", "b">>, <<"1", "0">>, <<"2", "0">>),
       StopsRow(<<"2">>, <<"B", "a">>, <<"2", "0">>, <<"3", "0">>),
       StopsRow(<<"3">>, <<"x">>, <<"3", "0">>, <<"1", "0">>) >>

\* stop_times tables of up to MaxRows rows over two trips and two stops
GeneralRows ==
    {TimesRow(t, s, q) : t \in TripIds, s \in {<<"1">>, <<"2">>},
                         q \in {<<"1">>, <<"2">>}}

GeneralTables == UNION {[1..n -> GeneralRows] : n \in 0..MaxRows}

\* one trip of three stops, its rows in every order, alone or followed by
\* a row of another trip
PermTrip ==
    << TimesRow(<<"T", "1">>, <<"1">>, <<"1">>),
       TimesRow(<<"T", "1">>, <<"3">>, <<"2">>),
       TimesRow(<<"T", "1">>, <<"2">>, <<"3">>) >>

NextTripRow == TimesRow(<<"T", "2">>, <<"3">>, <<"1">>)

PermTables ==
    LET orders == {[i \in 1..3 |-> PermTrip[p[i]]] : p \in Permutations(1..3)}
    IN  orders \cup {Append(o, NextTripRow) : o \in orders}

\* one trip whose rows may have a stop_sequence field that is no number or
\* is missing, followed by a row of another trip
FieldRows ==
    {TimesRow(<<"T", "1">>, s, q) : s \in {<<"1">>, <<"2">>, <<"3">>},
                                    q \in {<<"1">>, <<"x">>, NoField}}

FieldTables ==
    {Append(t, NextTripRow) : t \in UNION {[1..n -> FieldRows] : n \in 1..MaxFieldRows}}

\* values an uninitialised int may hold
UninitInts == {-1, 0, 5}

\* stops tables whose names may contain a stop id or differ in case
FindIds == {<<"1">>, <<"2">>, <<"a">>}

FindNames == {<<"A", "b">>, <<"B">>, <<"S", "1">>, <<"x">>}

CoordOf(id) ==
    CASE id = <<"1">> -> << <<"1", "0">>, <<"2", "0">> >>
      [] id = <<"2">> -> << <<"2", "0">>, <<"3", "0">> >>
      [] OTHER -> << <<"3", "0">>, <<"1", "0">> >>

FindRows == {StopsRow(i, n, CoordOf(i)[1], CoordOf(i)[2]) : i \in FindIds, n \in FindNames}

FindTables ==
    {t \in UNION {[1..n -> FindRows] : n \in 0..MaxStopRows} :
        \A i, j \in 1..Len(t) : t[i].stop_id = t[j].stop_id => i = j}

OriginQueries == {<<"1">>, <<"a">>, <<"A">>, <<"b">>, <<"a", "B">>, <<"z">>}

FinalQueries == {<<"2">>, <<"1">>, <<"b">>}

FindStopTimes ==
    << TimesRow(<<"T", "1">>, <<"1">>, <<"1">>),
       TimesRow(<<"T", "1">>, <<"a">>, <<"2">>),
       TimesRow(<<"T", "1">>, <<"2">>, <<"3">>),
       TimesRow(<<"T", "2">>, <<"2">>, <<"1">>) >>

InitInputs ==
    \/ /\ stops = RouteStops
       /\ stop_times \in GeneralTables
       /\ origin_input = <<"1">>
       /\ final_input = <<"2">>
    \/ /\ stops = RouteStops
       /\ stop_times \in PermTables
       /\ origin_input \in {<<"1">>, <<"2">>, <<"3">>}
       /\ final_input \in {<<"1">>, <<"2">>, <<"3">>}
    \/ /\ stops = RouteStops
       /\ stop_times \in FieldTables
       /\ origin_input = <<"1">>
       /\ final_input = <<"2">>
    \/ /\ stops \in FindTables
       /\ stop_times = FindStopTimes
       /\ origin_input \in OriginQueries
       /\ final_input \in FinalQueries

Init ==
    /\ InitInputs
    /\ pc = "main"
    /\ origin_stop = NoStop
    /\ final_stop = NoStop
    /\ gis = NoCall
    /\ intermediate_stops = <<>>
    /\ stops_count = 0
    /\ center = [lat |-> Quot(0, 1), lon |-> Quot(0, 1)]
    /\ latlngs = <<>>
    /\ markers = <<>>
    /\ nalloc = 0
    /\ nfree = <<>>

(***************************************************************************)
(* main and generate_map_html, step by step.                               *)
(***************************************************************************)
\* main: find_stop_in_csv(stopsPath, origin_input, &origin_stop)
ResolveOrigin ==
    /\ pc = "main"
    /\ LET f == find_stop_in_csv(stops, origin_input, nalloc)
       IN  /\ origin_stop' = IF f.found = 1 THEN f.stop ELSE origin_stop
           /\ nalloc' = f.nalloc
           /\ nfree' = Grow(nfree, f.nalloc)
           /\ pc' = IF f.found = 1 THEN "main_final" ELSE "exit1"
    /\ UNCHANGED <<stops, stop_times, origin_input, final_input, final_stop, gis,
                   intermediate_stops, stops_count, center, latlngs, markers>>

\* main: find_stop_in_csv(stopsPath, final_input, &final_stop)
ResolveFinal ==
    /\ pc = "main_final"
    /\ LET f == find_stop_in_csv(stops, final_input, nalloc)
       IN  /\ final_stop' = IF f.found = 1 THEN f.stop ELSE final_stop
           /\ nalloc' = f.nalloc
           /\ nfree' = Grow(nfree, f.nalloc)
           /\ pc' = IF f.found = 1 THEN "gmh_fetch" ELSE "exit1"
    /\ UNCHANGED <<stops, stop_times, origin_input, final_input, origin_stop, gis,
                   intermediate_stops, stops_count, center, latlngs, markers>>

\* generate_map_html: "Fetch intermediate stops"
FetchIntermediateStops ==
    /\ pc = "gmh_fetch"
    /\ \E uninit \in UninitInts :
       LET r == get_intermediate_stops(stop_times, stops, origin_stop.stop_id,
                                       final_stop.stop_id, MAX_STOPS, nalloc, uninit)
       IN  /\ gis' = r
           /\ intermediate_stops' = r.stops_array
           /\ stops_count' = r.stops_count
           /\ nalloc' = r.nalloc
           /\ nfree' = Grow(nfree, r.nalloc)
    /\ pc' = "gmh_check"
    /\ UNCHANGED <<stops, stop_times, origin_input, final_input, origin_stop,
                   final_stop, center, latlngs, markers>>

\* generate_map_html: if (stops_count == 0) { ... }
CheckStopsCount ==
    /\ pc = "gmh_check"
    /\ IF stops_count = 0
       THEN /\ intermediate_stops' = DirectConnection(origin_stop, final_stop)
            /\ stops_count' = 2
       ELSE UNCHANGED <<intermediate_stops, stops_count>>
    /\ pc' = "gmh_center"
    /\ UNCHANGED <<stops, stop_times, origin_input, final_input, origin_stop,
                   final_stop, gis, center, latlngs, markers, nalloc, nfree>>

\* generate_map_html: "Calculate center point"
ComputeCenter ==
    /\ pc = "gmh_center"
    /\ center' = CenterOf(intermediate_stops, stops_count)
    /\ pc' = "gmh_write"
    /\ UNCHANGED <<stops, stop_times, origin_input, final_input, origin_stop,
                   final_stop, gis, intermediate_stops, stops_count, latlngs,
                   markers, nalloc, nfree>>

\* generate_map_html: the polyline and the markers
WriteMap ==
    /\ pc = "gmh_write"
    /\ latlngs' = [i \in 1..stops_count |->
                      <<intermediate_stops[i].stop_lat, intermediate_stops[i].stop_lon>>]
    /\ markers' = [i \in 1..stops_count |->
                      MarkerAt(intermediate_stops, i - 1, stops_count)]
    /\ pc' = "gmh_free"
    /\ UNCHANGED <<stops, stop_times, origin_input, final_input, origin_stop,
                   final_stop, gis, intermediate_stops, stops_count, center,
                   nalloc, nfree>>

\* generate_map_html: "Free intermediate stops"
FreeIntermediateStops ==
    /\ pc = "gmh_free"
    /\ nfree' = FreeStops(nfree, intermediate_stops, 0, stops_count)
    /\ pc' = "main_free"
    /\ UNCHANGED <<stops, stop_times, origin_input, final_input, origin_stop,
                   final_stop, gis, intermediate_stops, stops_count, center,
                   latlngs, markers, nalloc>>

\* main: "Free allocated memory"
\* freeing a buffer that generate_map_html has freed already is undefined:
\* the allocator aborts the process at that call, or main runs on to its end
MainFree ==
    /\ pc = "main_free"
    /\ \/ /\ nfree' = FreeStop(FreeStop(nfree, origin_stop), final_stop)
          /\ pc' = "done"
       \/ /\ origin_stop.id_buf # 0
          /\ nfree[origin_stop.id_buf] > 0
          /\ nfree' = Free(nfree, origin_stop.id_buf)
          /\ pc' = "abort"
    /\ UNCHANGED <<stops, stop_times, origin_input, final_input, origin_stop,
                   final_stop, gis, intermediate_stops, stops_count, center,
                   latlngs, markers, nalloc>>

Next ==
    \/ ResolveOrigin
    \/ ResolveFinal
    \/ FetchIntermediateStops
    \/ CheckStopsCount
    \/ ComputeCenter
    \/ WriteMap
    \/ FreeIntermediateStops
    \/ MainFree

Spec == Init /\ [][Next]_vars

(***************************************************************************)
(* Vocabulary of the properties.                                           *)
(***************************************************************************)
\* get_intermediate_stops has returned to generate_map_html
GisReturned ==
    pc \in {"gmh_check", "gmh_center", "gmh_write", "gmh_free", "main_free", "done",
            "abort"}

\* the map has been written
MapWritten == pc \in {"gmh_free", "main_free", "done", "abort"}

origin_id == origin_stop.stop_id

final_id == final_stop.stop_id

IdsOf(arr) == [i \in 1..Len(arr) |-> arr[i].stop_id]

\* a trip is the rows of stop_times that carry its trip_id
TripsInFile == {stop_times[i].trip_id : i \in 1..Len(stop_times)}

RowIndexesOf(t) == {i \in 1..Len(stop_times) : stop_times[i].trip_id = t}

TripHasStop(t, id) == \E i \in RowIndexesOf(t) : stop_times[i].stop_id = id

CoveringTrips == {t \in TripsInFile : TripHasStop(t, origin_id) /\ TripHasStop(t, final_id)}

FirstRowOf(t) == CHOOSE i \in RowIndexesOf(t) : \A j \in RowIndexesOf(t) : i <= j

EarliestCoveringTrip ==
    CHOOSE t \in CoveringTrips : \A u \in CoveringTrips : FirstRowOf(t) <= FirstRowOf(u)

\* the (stop, sequence number) entries of a trip, in file order
EntriesOf(t) ==
    LET rows == SelectSeq(stop_times, LAMBDA r : r.trip_id = t)
    IN  [i \in 1..Len(rows) |->
            [stop_id |-> rows[i].stop_id, stop_sequence |-> atoi(rows[i].stop_sequence)]]

CountIn(a, e) == Cardinality({i \in 1..Len(a) : a[i] = e})

IsPermutationOf(a, b) ==
    /\ Len(a) = Len(b)
    /\ \A i \in 1..Len(a) : CountIn(a, a[i]) = CountIn(b, a[i])

IsAscending(a) ==
    \A i, j \in 1..Len(a) : i < j => a[i].stop_sequence <= a[j].stop_sequence

\* every trip's rows are consecutive in the file
TripsContiguous ==
    \A i, j, k \in 1..Len(stop_times) :
        (i < j /\ j < k /\ stop_times[i].trip_id = stop_times[k].trip_id)
            => stop_times[j].trip_id = stop_times[i].trip_id

\* first position (from 1) of a stop id in a list of entries, 0 when absent
FirstPos(a, id) ==
    IF \E i \in 1..Len(a) : a[i].stop_id = id
    THEN CHOOSE i \in 1..Len(a) :
            a[i].stop_id = id /\ \A j \in 1..(i - 1) : a[j].stop_id # id
    ELSE 0

DistinctStops(a) == \A i, j \in 1..Len(a) : a[i].stop_id = a[j].stop_id => i = j

LowerOf(s) == [i \in 1..Len(s) |-> tolower(s[i])]

IsInfix(n, h) == \E i \in 1..(Len(h) + 1), j \in 0..Len(h) : SubSeq(h, i, j) = n

IsStopId(q) == \E k \in 1..Len(stops) : stops[k].stop_id = q

NameHits(q) == {k \in 1..Len(stops) : IsInfix(LowerOf(q), LowerOf(stops[k].stop_name))}

SameRow(s, k) ==
    /\ s.stop_id = stops[k].stop_id
    /\ s.stop_name = stops[k].stop_name
    /\ s.stop_lat = atof(stops[k].stop_lat)
    /\ s.stop_lon = atof(stops[k].stop_lon)

RECURSIVE SeqSum(_)
SeqSum(s) == IF s = <<>> THEN 0 ELSE Head(s) + SeqSum(Tail(s))

(***************************************************************************)
(* C1. Of two or more trips that contain both the origin id and the        *)
(* destination id, get_intermediate_stops selects the one that comes first *)
(* in stop_times order: the entries it sorts and slices are that trip's.   *)
(***************************************************************************)
C1_FirstCoveringTripSelected ==
    (GisReturned /\ Cardinality(CoveringTrips) >= 2)
        => /\ gis.found_trip = 1
           /\ gis.trip_id = EarliestCoveringTrip
           /\ IsPermutationOf(gis.stop_sequence, EntriesOf(EarliestCoveringTrip))

\* C1 on the tables whose trips are contiguous in the file
FirstCoveringRunSelected ==
    (GisReturned /\ Cardinality(CoveringTrips) >= 2 /\ TripsContiguous)
        => /\ gis.found_trip = 1
           /\ gis.trip_id = EarliestCoveringTrip
           /\ IsPermutationOf(gis.stop_sequence, EntriesOf(EarliestCoveringTrip))

(***************************************************************************)
(* C2. Whenever some trip contains the origin id and the destination id    *)
(* with the origin at a smaller stop_sequence, get_intermediate_stops      *)
(* returns a non-zero stop count, wherever the trip is in the file.        *)
(***************************************************************************)
OriginBeforeFinalIn(t) ==
    \E i, j \in RowIndexesOf(t) :
        /\ stop_times[i].stop_id = origin_id
        /\ stop_times[j].stop_id = final_id
        /\ atoi(stop_times[i].stop_sequence) < atoi(stop_times[j].stop_sequence)

C2_CoveringTripReturnsRoute ==
    (GisReturned /\ \E t \in TripsInFile : OriginBeforeFinalIn(t))
        => gis.stops_count # 0

(***************************************************************************)
(* C3. For a selected trip of at most max_stops rows whose stop ids are    *)
(* all different, the stops returned are exactly the trip's stops from the *)
(* origin to the destination inclusive, in ascending stop_sequence order.  *)
(***************************************************************************)
C3_RouteIsInclusiveSlice ==
    (/\ GisReturned
     /\ gis.found_trip = 1
     /\ Len(gis.stop_sequence) <= MAX_STOPS
     /\ DistinctStops(gis.stop_sequence)
     /\ FirstPos(gis.stop_sequence, origin_id) <= FirstPos(gis.stop_sequence, final_id))
        => /\ IsAscending(gis.stop_sequence)
           /\ IdsOf(gis.stops_array) =
                 IdsOf(SubSeq(gis.stop_sequence,
                              FirstPos(gis.stop_sequence, origin_id),
                              FirstPos(gis.stop_sequence, final_id)))

\* C3 for the slice itself, before the stops are looked up in stops.csv
SliceIsInclusiveRange ==
    (/\ GisReturned
     /\ gis.found_trip = 1
     /\ Len(gis.stop_sequence) <= MAX_STOPS
     /\ DistinctStops(gis.stop_sequence)
     /\ FirstPos(gis.stop_sequence, origin_id) <= FirstPos(gis.stop_sequence, final_id))
        => /\ IsAscending(gis.stop_sequence)
           /\ IsPermutationOf(IdsOf(gis.stop_sequence), IdsOf(EntriesOf(gis.trip_id)))
               \/ ~TripsContiguous
           /\ gis.start_idx + 1 = FirstPos(gis.stop_sequence, origin_id)
           /\ gis.end_idx + 1 = FirstPos(gis.stop_sequence, final_id)

(***************************************************************************)
(* C4. If no trip contains both the origin id and the destination id,      *)
(* get_intermediate_stops returns 0 and writes no stop to the array.       *)
(***************************************************************************)
C4_NoCoveringTripReturnsZero ==
    (GisReturned /\ CoveringTrips = {})
        => /\ gis.stops_count = 0
           /\ gis.stops_array = <<>>
           /\ pc = "gmh_check" => (stops_count = 0 /\ intermediate_stops = <<>>)

C4_Witness ==
    /\ pc = "gmh_check"
    /\ CoveringTrips = {}
    /\ \E t, u \in TripsInFile :
          /\ t # u
          /\ TripHasStop(t, origin_id) /\ ~TripHasStop(u, origin_id)
          /\ TripHasStop(u, final_id) /\ ~TripHasStop(t, final_id)
    /\ gis.stops_count = 0

(***************************************************************************)
(* C5. If in the selected trip, sorted by stop_sequence, the destination   *)
(* id comes before the origin id, get_intermediate_stops returns 0 stops:  *)
(* neither the reversed slice nor a slice starting at the destination.     *)
(***************************************************************************)
FinalBeforeOrigin ==
    /\ gis.found_trip = 1
    /\ FirstPos(gis.stop_sequence, final_id) > 0
    /\ FirstPos(gis.stop_sequence, final_id) < FirstPos(gis.stop_sequence, origin_id)

C5_WrongDirectionReturnsZero ==
    (GisReturned /\ FinalBeforeOrigin)
        => /\ IsAscending(gis.stop_sequence)
           /\ gis.stops_count = 0
           /\ gis.stops_array = <<>>

C5_Witness ==
    /\ pc = "gmh_check"
    /\ FinalBeforeOrigin
    /\ gis.stops_count = 0

(***************************************************************************)
(* C6. A query equal to the stop_id of a row of stops.csv resolves to that *)
(* row, also when an earlier row's stop_name contains the query.           *)
(***************************************************************************)
C6_IdMatchTakesPrecedence ==
    /\ (pc # "main" /\ IsStopId(origin_input))
          => origin_stop.stop_id = origin_input
    /\ (pc \notin {"main", "main_final", "exit1"} /\ IsStopId(final_input))
          => final_stop.stop_id = final_input

(***************************************************************************)
(* C7. A query equal to no stop_id resolves to the first row, in file      *)
(* order, whose lower-cased stop_name contains the lower-cased query; no   *)
(* later row is returned, and the case of the letters does not matter.     *)
(***************************************************************************)
FirstNameHit(q) == CHOOSE k \in NameHits(q) : \A m \in NameHits(q) : k <= m

ResolvedByName(q, out) ==
    /\ NameHits(q) # {}
    /\ SameRow(out, FirstNameHit(q))
    /\ \A q2 \in OriginQueries \cup FinalQueries :
          (LowerOf(q2) = LowerOf(q) /\ ~IsStopId(q2))
              => find_stop_in_csv(stops, q2, 0).stop.stop_id = out.stop_id

C8_FailureIsTerminal ==
    (GisReturned /\ gis.stops_count = 0)
        => /\ stops_count = 0
           /\ intermediate_stops = <<>>
           /\ latlngs = <<>>
           /\ markers = <<>>

(***************************************************************************)
(* C8, amended. When get_intermediate_stops returns 0 stops,               *)
(* generate_map_html uses the direct connection: the list becomes          *)
(* [origin_stop, final_stop], stops_count 2, and the payload written has   *)
(* these two points, the origin first.                                     *)
(***************************************************************************)
C8_FailureUsesDirectConnection ==
    (GisReturned /\ gis.stops_count = 0)
        => /\ pc # "gmh_check"
              => (stops_count = 2 /\ intermediate_stops = <<origin_stop, final_stop>>)
           /\ MapWritten
              => /\ Len(markers) = 2
                 /\ markers[1].id = origin_id /\ markers[1].label = "Origin"
                 /\ markers[2].id = final_id /\ markers[2].label = "Final"
                 /\ latlngs = << <<origin_stop.stop_lat, origin_stop.stop_lon>>,
                                 <<final_stop.stop_lat, final_stop.stop_lon>> >>

C8_Witness ==
    /\ MapWritten
    /\ gis.stops_count = 0
    /\ Len(markers) = 2
    /\ origin_id # final_id

(***************************************************************************)
(* C9. In the payload written for n >= 1 stops the first point is the      *)
(* origin (green), the last is the destination (red) when n >= 2, all      *)
(* others are intermediate (blue); for n = 1 the only point is the origin  *)
(* and there is no destination; the points are in list order.              *)
(***************************************************************************)
C9_MarkerRoles ==
    MapWritten
        => /\ stops_count >= 1
           /\ Len(markers) = stops_count
           /\ Len(latlngs) = stops_count
           /\ \A i \in 1..stops_count :
                 /\ markers[i].id = intermediate_stops[i].stop_id
                 /\ markers[i].lat = intermediate_stops[i].stop_lat
                 /\ markers[i].lon = intermediate_stops[i].stop_lon
                 /\ latlngs[i] = <<markers[i].lat, markers[i].lon>>
                 /\ i = 1 => (markers[i].color = "green" /\ markers[i].label = "Origin")
                 /\ (i = stops_count /\ i >= 2)
                       => (markers[i].color = "red" /\ markers[i].label = "Final")
                 /\ (1 < i /\ i < stops_count)
                       => (markers[i].color = "blue" /\ markers[i].label = "Stop")

C9_Witness ==
    /\ MapWritten
    /\ stops_count = 3
    /\ markers[1].color = "green"
    /\ markers[2].color = "blue"
    /\ markers[3].color = "red"

\* the payload of a single stop
C9_SingleStop ==
    /\ MapWritten
    /\ stops_count = 1
    /\ markers[1].color = "green"

(***************************************************************************)
(* C10. The map centre is the arithmetic mean of the latitudes and of the  *)
(* longitudes of exactly the points of the payload: their sum over their   *)
(* number n.                                                               *)
(***************************************************************************)
C10_CenterIsMean ==
    MapWritten
        => LET n == Len(markers)
               lats == [i \in 1..n |-> markers[i].lat]
               lons == [i \in 1..n |-> markers[i].lon]
           IN  /\ n >= 1
               /\ center.lat[2] # 0 /\ center.lon[2] # 0
               /\ center.lat[1] * n = SeqSum(lats) * center.lat[2]
               /\ center.lon[1] * n = SeqSum(lons) * center.lon[2]

C10_Witness ==
    /\ MapWritten
    /\ Len(markers) = 2
    /\ <<markers[1].lat, markers[1].lon>> = <<10, 20>>
    /\ <<markers[2].lat, markers[2].lon>> = <<20, 30>>
    /\ center.lat[1] = 15 * center.lat[2]
    /\ center.lon[1] = 25 * center.lon[2]

(***************************************************************************)
(* C11. The sort of the selected trip's entries yields a permutation of    *)
(* them in non-decreasing stop_sequence order and is stable: entries with  *)
(* the same stop_sequence keep the order of their rows in the file.        *)
(***************************************************************************)
EntriesWithSeq(a, v) == SelectSeq(a, LAMBDA e : e.stop_sequence = v)

C11_SortIsStable ==
    (GisReturned /\ gis.found_trip = 1)
        => /\ IsAscending(gis.stop_sequence)
           /\ IsPermutationOf(gis.stop_sequence, gis.read_sequence)
           /\ \A i \in 1..Len(gis.read_sequence) :
                 LET v == gis.read_sequence[i].stop_sequence
                 IN  EntriesWithSeq(gis.stop_sequence, v) =
                         EntriesWithSeq(gis.read_sequence, v)

C11_Witness ==
    /\ GisReturned
    /\ gis.found_trip = 1
    /\ ~IsAscending(gis.read_sequence)
    /\ \E i, j \in 1..Len(gis.read_sequence) :
          /\ i < j
          /\ gis.read_sequence[i].stop_sequence = gis.read_sequence[j].stop_sequence
          /\ gis.read_sequence[i].stop_id # gis.read_sequence[j].stop_id
    /\ IsAscending(gis.stop_sequence)

(***************************************************************************)
(* C12. When the origin id occurs more than once in the selected trip's    *)
(* sorted sequence and a destination entry follows, the slice starts at    *)
(* the first occurrence of the origin id and runs through the destination. *)
(***************************************************************************)
OriginRepeated ==
    /\ gis.found_trip = 1
    /\ Cardinality({i \in 1..Len(gis.stop_sequence) :
                       gis.stop_sequence[i].stop_id = origin_id}) >= 2
    /\ FirstPos(gis.stop_sequence, origin_id) <= FirstPos(gis.stop_sequence, final_id)

C12_SliceStartsAtFirstOrigin ==
    (GisReturned /\ OriginRepeated)
        => /\ gis.start_idx + 1 = FirstPos(gis.stop_sequence, origin_id)
           /\ gis.end_idx + 1 = FirstPos(gis.stop_sequence, final_id)

\* what the scan does instead: the slice starts at the last origin entry that
\* is not after the first destination entry
SliceStartsAtLastOrigin ==
    (GisReturned /\ OriginRepeated)
        => /\ gis.end_idx + 1 = FirstPos(gis.stop_sequence, final_id)
           /\ gis.start_idx <= gis.end_idx
           /\ gis.stop_sequence[gis.start_idx + 1].stop_id = origin_id
           /\ \A i \in (gis.start_idx + 2)..(gis.end_idx + 1) :
                 gis.stop_sequence[i].stop_id = origin_id => i = gis.end_idx + 1

(***************************************************************************)
(* C13. A stop_times row whose stop_sequence field is missing or is not an *)
(* integer is left out of its trip's entry list: every entry stored comes  *)
(* from a row with a parseable stop_sequence, and the list of a selected   *)
(* trip is exactly the trip's parseable rows.                              *)
(***************************************************************************)
Parseable(f) == f # NoField /\ Len(f) > 0 /\ \A i \in 1..Len(f) : IsDigit(f[i])

ParseableEntriesOf(t) ==
    LET rows == SelectSeq(stop_times,
                          LAMBDA r : r.trip_id = t /\ Parseable(r.stop_sequence))
    IN  [i \in 1..Len(rows) |->
            [stop_id |-> rows[i].stop_id, stop_sequence |-> atoi(rows[i].stop_sequence)]]

C13_UnparseableRowsExcluded ==
    GisReturned
        => /\ \A i \in 1..Len(gis.read_sequence) :
                 \E k \in RowIndexesOf(gis.trip_id) :
                     /\ Parseable(stop_times[k].stop_sequence)
                     /\ stop_times[k].stop_id = gis.read_sequence[i].stop_id
                     /\ atoi(stop_times[k].stop_sequence) =
                            gis.read_sequence[i].stop_sequence
           /\ (gis.found_trip = 1 /\ TripsContiguous)
                 => IsPermutationOf(gis.read_sequence, ParseableEntriesOf(gis.trip_id))

\* what the read loop does instead: every row of the run is stored, a field
\* that is no number with stop_sequence 0
EveryRowStored ==
    (GisReturned /\ gis.found_trip = 1 /\ TripsContiguous)
        => /\ Len(gis.read_sequence) = Cardinality(RowIndexesOf(gis.trip_id))
           /\ \A k \in RowIndexesOf(gis.trip_id) :
                 (stop_times[k].stop_sequence # NoField
                     /\ ~Parseable(stop_times[k].stop_sequence))
                     => \E i \in 1..Len(gis.read_sequence) :
                           /\ gis.read_sequence[i].stop_id = stop_times[k].stop_id
                           /\ gis.read_sequence[i].stop_sequence = 0

(***************************************************************************)
(* C14. The rows of stop_times are grouped by trip_id wherever they are in *)
(* the file: a trip that contains the origin and the destination and whose *)
(* rows are interleaved with rows of other trips is found, and the entry   *)
(* list of the selected trip is all the rows that carry its trip_id.       *)
(***************************************************************************)
Interleaved(t) ==
    \E i, j \in RowIndexesOf(t) :
        \E k \in 1..Len(stop_times) : i < k /\ k < j /\ stop_times[k].trip_id # t

C14_TripsGroupedById ==
    GisReturned
        => /\ (\E t \in CoveringTrips : Interleaved(t))
                 => (gis.found_trip = 1 /\ gis.trip_id \in CoveringTrips)
           /\ gis.found_trip = 1
                 => IsPermutationOf(IdsOf(gis.read_sequence),
                                    IdsOf(EntriesOf(gis.trip_id)))

\* what the read loop does instead: the selected entry list is one run of
\* consecutive rows of the same trip_id, closed by a row of another trip
SelectedListIsOneRun ==
    (GisReturned /\ gis.found_trip = 1)
        => \E a \in 1..Len(stop_times) :
              \E b \in a..(Len(stop_times) - 1) :
                  /\ \A k \in a..b : stop_times[k].trip_id = gis.trip_id
                  /\ stop_times[b + 1].trip_id # gis.trip_id
                  /\ a > 1 => stop_times[a - 1].trip_id # gis.trip_id
                  /\ IdsOf(gis.read_sequence) = IdsOf(SubSeq(stop_times, a, b))

(***************************************************************************)
(* C15. On every path through main and generate_map_html, the path on      *)
(* which no stop is returned and origin and final are copied into the      *)
(* array included, every stop_id and stop_name buffer is freed at most     *)
(* once.                                                                   *)
(***************************************************************************)
C15_BuffersFreedAtMostOnce == \A b \in 1..Len(nfree) : nfree[b] <= 1

\* the frees are single when get_intermediate_stops has returned stops
RouteBuffersFreedOnce ==
    (GisReturned /\ gis.stops_count > 0)
        => /\ \A b \in 1..Len(nfree) : nfree[b] <= 1
           /\ pc = "done" => \A b \in 1..Len(nfree) : nfree[b] = 1
           /\ pc # "abort"

(***************************************************************************)
(* C16. When get_intermediate_stops returns n > 0 stops for the slice of   *)
(* sorted positions start_idx..end_idx, n = end_idx - start_idx + 1 and    *)
(* the k-th stop returned has the stop id of the entry at sorted position  *)
(* start_idx + k: no stop of the slice is dropped and none is replaced by  *)
(* another row of stops.csv.                                               *)
(***************************************************************************)
C16_SliceReturnedWhole ==
    (GisReturned /\ gis.stops_count > 0)
        => /\ gis.stops_count = gis.end_idx - gis.start_idx + 1
           /\ \A k \in 0..(gis.stops_count - 1) :
                 gis.stops_array[k + 1].stop_id =
                     gis.stop_sequence[gis.start_idx + k + 1].stop_id

\* what the lookup loop does instead: the stops returned are, in order, the
\* rows find_stop_in_csv gives for the ids of the slice that it finds
FoundLookups(ids) ==
    SelectSeq([k \in 1..Len(ids) |-> find_stop_in_csv(stops, ids[k], 0)],
              LAMBDA r : r.found = 1)

ReturnedAreFoundLookups ==
    (GisReturned /\ gis.stops_count > 0 /\ Len(gis.stop_sequence) <= MAX_STOPS)
        => LET ids == IdsOf(SubSeq(gis.stop_sequence, gis.start_idx + 1,
                                   gis.end_idx + 1))
               f == FoundLookups(ids)
           IN  /\ gis.stops_count = Len(f)
               /\ \A k \in 1..Len(f) :
                     gis.stops_array[k].stop_id = f[k].stop.stop_id

====
